---- MODULE Spec2Model ----
(***************************************************************************)
(* Model of src/src/jobs/debugger.py: the stuck-job diagnostics of the    *)
(* jobs app.  The Job table is a function from job ids to rows; time is   *)
(* counted in minutes; manual_clear_stuck and debug_stuck_jobs are        *)
(* processes whose steps are the places where the code touches the table  *)
(* or reads the clock.                                                     *)
(***************************************************************************)
EXTENDS Integers, Sequences, FiniteSets

\* ------------------------------------------------------------- bounds
MaxTicks == 1
NumProcs == 2
MaxCalls == 2

\* -------------------------------------------------- program constants
ReclaimMinutes == 10
WarnMinutes == 5
ListLimit == 10
NoTime == -1

\* The table holds two jobs throughout: the model has no enqueue or delete.
JobIds == {"a", "b"}
Procs == 1..NumProcs
StartTime == ReclaimMinutes + 2
MaxTime == StartTime + MaxTicks

Statuses == {"pending", "running", "finished", "failed"}
JobChannels == {"email", "bulk"}
\* The channel argument: None (the default), the empty string, or a name.
NoChannel == "None"
ChannelArgs == {NoChannel, ""} \cup JobChannels
ClearedMessage == "Cleared as stuck job"
WorkerError == "boom"

VARIABLES jobs, clock, rc, dbg, history, calls

vars == <<jobs, clock, rc, dbg, history, calls>>

\* ------------------------------------------------------ pure helpers
\* Python truthiness of the channel argument, as tested by `if channel:`.
Truthy(channel) == channel # NoChannel /\ channel # ""

\* jobs_query: Job.objects.all(), narrowed to the channel when one is given.
\* Fault variant: the channel filter is never applied.
jobs_query_all(db, channel) == JobIds

jobs_query(db, channel) ==
    {j \in JobIds : Truthy(channel) => db[j].channel = channel}

StuckStatuses == {"pending", "running"}

\* A datetime column compared with __lt: a NULL never matches.
Lt(col, t) == col # NoTime /\ col < t

\* Fault variant: created__lte in place of created__lt.
potentially_stuck_le(db, channel, now) ==
    {j \in jobs_query(db, channel) :
        /\ db[j].status \in StuckStatuses
        /\ db[j].created <= now - ReclaimMinutes}

potentially_stuck(db, channel, now) ==
    {j \in jobs_query(db, channel) :
        /\ db[j].status \in StuckStatuses
        /\ Lt(db[j].created, now - ReclaimMinutes)}

\* Fault variant: the status filter is missing.
expired_jobs_any_status(db, channel, now) ==
    {j \in jobs_query(db, channel) : Lt(db[j].expires_at, now)}

expired_jobs(db, channel, now) ==
    {j \in jobs_query(db, channel) :
        /\ Lt(db[j].expires_at, now)
        /\ db[j].status \in StuckStatuses}

\* QuerySet.union(): SQL UNION, which drops duplicate rows.  The result is
\* the number of times each job id appears in the combined result.
\* Fault variant: union(all=True), SQL UNION ALL, which keeps duplicates.
union_all(a, b) ==
    [j \in JobIds |-> (IF j \in a THEN 1 ELSE 0) + (IF j \in b THEN 1 ELSE 0)]

union(a, b) == [j \in JobIds |-> IF j \in a \cup b THEN 1 ELSE 0]

Count(s, j) == Cardinality({n \in DOMAIN s : s[n].id = j})

\* The result lists a query with the multiplicities `mult` may return, in
\* any row order, each row read from the table as it is now.
Rows(db, mult) ==
    LET total == Cardinality({j \in JobIds : mult[j] >= 1})
                 + Cardinality({j \in JobIds : mult[j] >= 2})
    IN {s \in [1..total -> [id : JobIds, row : {db[j] : j \in JobIds}]] :
           \A j \in JobIds :
               /\ Count(s, j) = mult[j]
               /\ \A n \in DOMAIN s : s[n].id = j => s[n].row = db[j]}

Ids(s) == {s[n].id : n \in DOMAIN s}

\* Fault variant: the dry_run flag is ignored.
AppliesAlways(dry_run) == TRUE

\* `if not dry_run:` of the clearing loop.
Applies(dry_run) == ~dry_run

\* Fault variant: the status assignment is missing.
clearedKeepsStatus(row, t) ==
    [row EXCEPT !.finished_at = t, !.last_error = ClearedMessage]

\* Fault variant: the finished_at assignment is missing.
clearedNoFinishedAt(row, t) ==
    [row EXCEPT !.status = "failed", !.last_error = ClearedMessage]

\* The three assignments to the in-memory job before save().
cleared(row, t) ==
    [row EXCEPT !.status = "failed", !.finished_at = t,
                !.last_error = ClearedMessage]

\* job.save(): writes every field of the in-memory object to its row.
save(db, id, obj) == [db EXCEPT ![id] = obj]

\* ------------------------------------------------------------ state
IdleProc == [pc |-> "idle", channel |-> NoChannel, dry_run |-> TRUE,
             now |-> NoTime, all_stuck |-> <<>>, i |-> 1,
             cleared_count |-> 0, pre |-> <<>>]

IdleDbg == [pc |-> "idle", channel |-> NoChannel, pending_jobs |-> <<>>,
            k |-> 1, t1 |-> NoTime, report |-> <<>>]

\* A row as the enqueuing system and the workers leave it.
NewJob(ch, st, cr, ex) ==
    [channel |-> ch, status |-> st, created |-> cr, expires_at |-> ex,
     finished_at |-> IF st \in {"finished", "failed"} THEN cr ELSE NoTime,
     last_error |-> IF st = "failed" THEN WorkerError ELSE ""]

CreatedTimes == {StartTime - ReclaimMinutes - 1, StartTime - ReclaimMinutes,
                 StartTime - WarnMinutes, StartTime}
ExpiryTimes == {NoTime, StartTime - 1, StartTime}

JobRows == {NewJob(ch, st, cr, ex) :
               ch \in JobChannels, st \in Statuses,
               cr \in CreatedTimes, ex \in ExpiryTimes}

Init ==
    /\ jobs \in [JobIds -> JobRows]
    /\ clock = StartTime
    /\ rc = [p \in Procs |-> IdleProc]
    /\ dbg = IdleDbg
    /\ history = {}
    /\ calls = 0

\* ----------------------------------------------------------- actions
\* The wall clock advances.
Tick ==
    /\ clock < MaxTime
    /\ clock' = clock + 1
    /\ UNCHANGED <<jobs, rc, dbg, history, calls>>

\* manual_clear_stuck(channel, dry_run) up to `now = timezone.now()` of
\* debug_clear_stuck_logic: the arguments and the time are bound; the
\* querysets are built but not run.  pre remembers the table as it was.
Call(p) ==
    /\ rc[p].pc = "idle"
    /\ calls < MaxCalls
    /\ \E channel \in ChannelArgs, dry_run \in BOOLEAN :
          rc' = [rc EXCEPT ![p] = [IdleProc EXCEPT !.pc = "query",
                                                   !.channel = channel,
                                                   !.dry_run = dry_run,
                                                   !.now = clock,
                                                   !.pre = jobs]]
    /\ calls' = calls + 1
    /\ UNCHANGED <<jobs, clock, dbg, history>>

\* `for job in all_stuck:` runs the union query and loads its rows.
Fetch(p) ==
    /\ rc[p].pc = "query"
    /\ \E s \in Rows(jobs, union(potentially_stuck(jobs, rc[p].channel, rc[p].now),
                                 expired_jobs(jobs, rc[p].channel, rc[p].now))) :
          rc' = [rc EXCEPT ![p].pc = "loop", ![p].all_stuck = s, ![p].i = 1]
    /\ UNCHANGED <<jobs, clock, dbg, history, calls>>

\* One iteration of the clearing loop whose save() succeeds.
LoopIter(p) ==
    /\ rc[p].pc = "loop"
    /\ rc[p].i <= Len(rc[p].all_stuck)
    /\ LET job == rc[p].all_stuck[rc[p].i]
       IN jobs' = IF Applies(rc[p].dry_run)
                  THEN save(jobs, job.id, cleared(job.row, clock))
                  ELSE jobs
    /\ rc' = [rc EXCEPT ![p].i = @ + 1, ![p].cleared_count = @ + 1]
    /\ UNCHANGED <<clock, dbg, history, calls>>

\* The loop is over: the count is returned.
Return(p) ==
    /\ rc[p].pc = "loop"
    /\ rc[p].i > Len(rc[p].all_stuck)
    /\ rc' = [rc EXCEPT ![p].pc = "done"]
    /\ UNCHANGED <<jobs, clock, dbg, history, calls>>

\* job.save() raises: the exception leaves manual_clear_stuck, which has
\* no handler; the row is not written and nothing is returned.
SaveFails(p) ==
    /\ rc[p].pc = "loop"
    /\ rc[p].i <= Len(rc[p].all_stuck)
    /\ Applies(rc[p].dry_run)
    /\ rc' = [rc EXCEPT ![p].pc = "raised"]
    /\ UNCHANGED <<jobs, clock, dbg, history, calls>>

\* The jobs whose save() has succeeded in the run of p, with the rows
\* that the run wrote.
Cleared(p) ==
    IF Applies(rc[p].dry_run)
    THEN {[id |-> rc[p].all_stuck[n].id, row |-> jobs[rc[p].all_stuck[n].id]] :
             n \in 1..(rc[p].i - 1)}
    ELSE {}

\* The run is over and the caller is free to call manual_clear_stuck
\* again.  history keeps what the earlier runs have cleared.
Again(p) ==
    /\ rc[p].pc \in {"done", "raised"}
    /\ calls < MaxCalls
    /\ history' = history \cup Cleared(p)
    /\ rc' = [rc EXCEPT ![p] = IdleProc]
    /\ UNCHANGED <<jobs, clock, dbg, calls>>

NextSeq ==
    \/ Tick
    \/ Call(1) \/ Fetch(1) \/ LoopIter(1) \/ SaveFails(1) \/ Return(1) \/ Again(1)

\* Sequential use: one caller at a time and no worker.
SpecSeq == Init /\ [][NextSeq]_vars

\* ------------------------------------------------- debug_stuck_jobs
\* `job.expires_at and job.expires_at < timezone.now()`
ExpiredAt(obj, t) == obj.expires_at # NoTime /\ obj.expires_at < t

\* Fault variant: the 10-minute threshold in place of the 5-minute one.
StaleAtReclaim(obj, t) == obj.created < t - ReclaimMinutes /\ obj.status = "pending"

\* `job.created < timezone.now() - timedelta(minutes=5) and job.status == 'pending'`
StaleAt(obj, t) == obj.created < t - WarnMinutes /\ obj.status = "pending"

\* filter(status='pending').order_by('created')[:10]: rows in ascending
\* creation time (ties in any order), cut to the first ListLimit.
pending_jobs(db, channel) ==
    LET ids == {j \in jobs_query(db, channel) : db[j].status = "pending"}
        n == Cardinality(ids)
        sorted == {s \in [1..n -> [id : ids, row : {db[j] : j \in ids}]] :
                     /\ \A j \in ids : Count(s, j) = 1
                     /\ \A m \in 1..n : s[m].row = db[s[m].id]
                     /\ \A m \in 1..n : \A q \in 1..n :
                            m < q => s[m].row.created <= s[q].row.created}
    IN {SubSeq(s, 1, IF n < ListLimit THEN n ELSE ListLimit) : s \in sorted}

\* debug_stuck_jobs(channel) up to the start of its loop.
DebugStart ==
    /\ dbg.pc = "idle"
    /\ \E channel \in ChannelArgs : \E s \in pending_jobs(jobs, channel) :
          dbg' = [IdleDbg EXCEPT !.pc = "if", !.channel = channel,
                                 !.pending_jobs = s]
    /\ UNCHANGED <<jobs, clock, rc, history, calls>>

\* The `if` of the loop body: the first reading of the clock.
DebugCheckExpired ==
    /\ dbg.pc = "if"
    /\ dbg.k <= Len(dbg.pending_jobs)
    /\ LET job == dbg.pending_jobs[dbg.k]
       IN IF ExpiredAt(job.row, clock)
          THEN dbg' = [dbg EXCEPT !.k = @ + 1,
                          !.report = Append(@, [id |-> job.id, verdict |-> "EXPIRED",
                                                t1 |-> clock, t2 |-> NoTime])]
          ELSE dbg' = [dbg EXCEPT !.pc = "elif", !.t1 = clock]
    /\ UNCHANGED <<jobs, clock, rc, history, calls>>

\* The `elif` and `else`: the second reading of the clock.
DebugCheckStale ==
    /\ dbg.pc = "elif"
    /\ LET job == dbg.pending_jobs[dbg.k]
           verdict == IF StaleAt(job.row, clock) THEN "POSSIBLY STUCK"
                      ELSE "Seems normal"
       IN dbg' = [dbg EXCEPT !.pc = "if", !.k = @ + 1,
                     !.report = Append(@, [id |-> job.id, verdict |-> verdict,
                                           t1 |-> dbg.t1, t2 |-> clock])]
    /\ UNCHANGED <<jobs, clock, rc, history, calls>>

DebugReturn ==
    /\ dbg.pc = "if"
    /\ dbg.k > Len(dbg.pending_jobs)
    /\ dbg' = [dbg EXCEPT !.pc = "done"]
    /\ UNCHANGED <<jobs, clock, rc, history, calls>>

NextDebug == Tick \/ DebugStart \/ DebugCheckExpired \/ DebugCheckStale \/ DebugReturn

SpecDebug == Init /\ [][NextDebug]_vars

\* ------------------------------------------------- concurrent use
\* The workers of the jobs app: pending -> running -> finished | failed.
WorkerStart(j) ==
    /\ jobs[j].status = "pending"
    /\ jobs' = [jobs EXCEPT ![j].status = "running"]
    /\ UNCHANGED <<clock, rc, dbg, history, calls>>

WorkerFinish(j) ==
    /\ jobs[j].status = "running"
    /\ jobs' = [jobs EXCEPT ![j].status = "finished", ![j].finished_at = clock]
    /\ UNCHANGED <<clock, rc, dbg, history, calls>>

WorkerFail(j) ==
    /\ jobs[j].status = "running"
    /\ jobs' = [jobs EXCEPT ![j].status = "failed", ![j].finished_at = clock,
                            ![j].last_error = WorkerError]
    /\ UNCHANGED <<clock, rc, dbg, history, calls>>

\* A pending job old enough to be reclaimed by age, which the workers take
\* through the other statuses, and a job that finished long ago.
InitConc ==
    /\ jobs = [j \in JobIds |->
                 IF j = "a"
                 THEN NewJob("email", "pending", StartTime - ReclaimMinutes - 1, NoTime)
                 ELSE NewJob("bulk", "finished", StartTime - ReclaimMinutes - 1,
                             StartTime - 1)]
    /\ clock = StartTime
    /\ rc = [p \in Procs |-> IdleProc]
    /\ dbg = IdleDbg
    /\ history = {}
    /\ calls = 0

Next ==
    \/ Tick
    \/ \E p \in Procs :
          Call(p) \/ Fetch(p) \/ LoopIter(p) \/ SaveFails(p) \/ Return(p) \/ Again(p)
    \/ \E j \in JobIds : WorkerStart(j) \/ WorkerFinish(j) \/ WorkerFail(j)

\* Several callers at once, the workers running, save() free to fail.
Spec == InitConc /\ [][Next]_vars

\* ============================================================ claims
\* The reclaim rule as the specification words it.
ReclaimPredicate(row, now) ==
    /\ row.status \in {"pending", "running"}
    /\ \/ row.created < now - ReclaimMinutes
       \/ (row.expires_at # NoTime /\ row.expires_at < now)

InFilter(row, channel) == Truthy(channel) => row.channel = channel

\* The jobs of the table `db` that the rule selects for a call.
Candidates(db, channel, now) ==
    {j \in JobIds : InFilter(db[j], channel) /\ ReclaimPredicate(db[j], now)}

Terminal == {"finished", "failed"}

Fetched(p) == rc[p].pc \in {"loop", "done", "raised"}

\* C1: a dry run of manual_clear_stuck never changes any job: from the call
\* to its end the table is the table the call found.
C1_DryRunChangesNothing ==
    (rc[1].pc # "idle" /\ rc[1].dry_run) => jobs = rc[1].pre

C1_Witness ==
    /\ rc[1].pc = "done"
    /\ rc[1].dry_run
    /\ rc[1].cleared_count = 2

\* C2: the rows the union query returns are all pending or running: no
\* finished or failed job is among the candidates.
C2_CandidatesNotTerminal ==
    Fetched(1) =>
        \A n \in DOMAIN rc[1].all_stuck :
            /\ rc[1].all_stuck[n].row.status \in {"pending", "running"}
            /\ rc[1].pre[rc[1].all_stuck[n].id].status \notin Terminal

C2_Witness ==
    /\ Fetched(1)
    /\ Len(rc[1].all_stuck) = 1
    /\ \E j \in JobIds :
          /\ rc[1].pre[j].status \in Terminal
          /\ InFilter(rc[1].pre[j], rc[1].channel)
          /\ rc[1].pre[j].created < rc[1].now - ReclaimMinutes
          /\ rc[1].pre[j].expires_at # NoTime
          /\ rc[1].pre[j].expires_at < rc[1].now

\* C3: a job within the channel filter is a candidate if and only if it is
\* pending or running and (created strictly before now - 10 minutes, or it
\* has an expiry time strictly before now).
C3_CandidatesAreThePredicate ==
    Fetched(1) =>
        Ids(rc[1].all_stuck) = Candidates(rc[1].pre, rc[1].channel, rc[1].now)

C3_Witness ==
    /\ Fetched(1)
    /\ \E j \in Ids(rc[1].all_stuck) :
          /\ ~(rc[1].pre[j].created < rc[1].now - ReclaimMinutes)
          /\ rc[1].pre[j].expires_at = rc[1].now - 1
    /\ \E j \in JobIds \ Ids(rc[1].all_stuck) :
          /\ rc[1].pre[j].status = "pending"
          /\ InFilter(rc[1].pre[j], rc[1].channel)
          /\ rc[1].pre[j].created = rc[1].now - ReclaimMinutes
          /\ rc[1].pre[j].expires_at = NoTime

\* C4: what an applied run has cleared is no candidate of a later run, and
\* a later run leaves it as the earlier run wrote it.
C4_ClearedStaysCleared ==
    \A h \in history :
        /\ jobs[h.id] = h.row
        /\ Fetched(1) => h.id \notin Ids(rc[1].all_stuck)

C4_Witness ==
    /\ history # {}
    /\ rc[1].pc = "done"
    /\ ~rc[1].dry_run
    /\ rc[1].cleared_count = 1

\* C5: when an applied run is over, however it ended, every candidate has
\* been attempted, and the count is the number of saves that succeeded.
C5_ErrorNotFatal ==
    (rc[1].pc \in {"done", "raised"} /\ ~rc[1].dry_run) =>
        /\ rc[1].i >= Len(rc[1].all_stuck)
        /\ rc[1].cleared_count = Cardinality(Cleared(1))

\* C6: under concurrency a job that is finished or failed is never written
\* again: finished never becomes failed, a failed row is not rewritten.
C6_TerminalNeverRewritten ==
    [][\A j \in JobIds :
          jobs[j].status \in Terminal => jobs'[j] = jobs[j]]_vars

\* C7: every listed pending job gets exactly one verdict: expired if it has
\* an expiry time before now, whatever its age; else possibly stuck if it
\* was created more than 5 minutes ago; else normal.
C7_VerdictPrecedence ==
    /\ Len(dbg.report) = dbg.k - 1
    /\ dbg.pc = "done" => Len(dbg.report) = Len(dbg.pending_jobs)
    /\ \A n \in DOMAIN dbg.report :
          LET e == dbg.report[n]
              row == dbg.pending_jobs[n].row
              expired == row.expires_at # NoTime /\ row.expires_at < e.t1
          IN /\ e.id = dbg.pending_jobs[n].id
             /\ row.status = "pending"
             /\ expired => e.verdict = "EXPIRED"
             /\ (~expired /\ row.created < e.t2 - WarnMinutes)
                    => e.verdict = "POSSIBLY STUCK"
             /\ (~expired /\ ~(row.created < e.t2 - WarnMinutes))
                    => e.verdict = "Seems normal"

C7_Witness ==
    /\ dbg.pc = "done"
    /\ Len(dbg.report) = 2
    /\ \E n \in DOMAIN dbg.report :
          /\ dbg.report[n].verdict = "EXPIRED"
          /\ dbg.pending_jobs[n].row.created < dbg.report[n].t1 - WarnMinutes
    /\ \E n \in DOMAIN dbg.report :
          /\ dbg.report[n].verdict = "POSSIBLY STUCK"
          /\ dbg.pending_jobs[n].row.created = dbg.report[n].t2 - WarnMinutes - 1

\* C8: after an applied run that returned, every job that was a candidate
\* when it was called is failed, has finished_at set and carries the
\* clearing message, and no job within the filter satisfies the rule at the
\* call's now.
C8_AppliedRunClearsAll ==
    (rc[1].pc = "done" /\ ~rc[1].dry_run) =>
        /\ \A j \in Candidates(rc[1].pre, rc[1].channel, rc[1].now) :
              /\ jobs[j].status = "failed"
              /\ jobs[j].finished_at # NoTime
              /\ jobs[j].last_error = ClearedMessage
        /\ Candidates(jobs, rc[1].channel, rc[1].now) = {}

C8_Witness ==
    /\ rc[1].pc = "done"
    /\ ~rc[1].dry_run
    /\ Cardinality(Candidates(rc[1].pre, rc[1].channel, rc[1].now)) = 2

\* C9: no job is processed twice, and the value returned, dry run or not,
\* is the number of distinct jobs that satisfy the rule.
C9_NoDuplicates ==
    /\ \A j \in JobIds : Count(rc[1].all_stuck, j) <= 1
    /\ rc[1].pc = "done" =>
          rc[1].cleared_count =
              Cardinality(Candidates(rc[1].pre, rc[1].channel, rc[1].now))

C9_Witness ==
    /\ rc[1].pc = "done"
    /\ rc[1].cleared_count = 2
    /\ \E j \in JobIds :
          /\ j \in potentially_stuck(rc[1].pre, rc[1].channel, rc[1].now)
          /\ j \in expired_jobs(rc[1].pre, rc[1].channel, rc[1].now)

\* C10: an applied run called with a channel leaves every job of another
\* channel as it was, however old or expired.
C10_OtherChannelsUntouched ==
    (rc[1].pc # "idle" /\ ~rc[1].dry_run /\ Truthy(rc[1].channel)) =>
        \A j \in JobIds :
            rc[1].pre[j].channel # rc[1].channel => jobs[j] = rc[1].pre[j]

C10_Witness ==
    /\ rc[1].pc = "done"
    /\ ~rc[1].dry_run
    /\ Truthy(rc[1].channel)
    /\ rc[1].cleared_count = 1
    /\ \E j \in JobIds :
          /\ jobs[j].channel # rc[1].channel
          /\ ReclaimPredicate(jobs[j], rc[1].now)
====
